---- MODULE Spec2Model ----
(***************************************************************************)
(* Model of the Data Hub File Service (dhfs) interrogation pipeline:       *)
(* Interrogator.interrogate_new_files / interrogate_file and the object    *)
(* store and central API it talks to.                                      *)
(*                                                                         *)
(* One run of interrogate_new_files is a sequential process; `pc` is the   *)
(* position of that process, one action per awaited call.  The inbox, the  *)
(* interrogation bucket and the central API are the environment: what the  *)
(* inbox holds at a byte range and which status a remote call returns are  *)
(* chosen with \E where the call is made.                                  *)
(*                                                                         *)
(* Bytes are abstracted: a Crypt4GH segment is a record (key, nonce,       *)
(* plaintext); digests are injective tags over what they digest.           *)
(***************************************************************************)
EXTENDS Integers, Sequences, FiniteSets, TLC

\* ---------------------------------------------------------------- bounds
MaxBatch == 2          \* files in the answer of the central API
MaxParts == 2          \* part ranges emitted for one file
MaxFaults == 1         \* faults and bad inputs the environment produces in one run

MaxSegments == 3       \* full Crypt4GH segments in one plaintext
MaxKeys == 3           \* object keys the interrogation bucket can hold
MaxAnswer == 2         \* length of the central API's list of removable ids

\* ------------------------------------------------------------- constants
NONCE_LENGTH == 12
AUTH_TAG_LENGTH == 16
SEGMENT_SIZE == 65536  \* crypt4gh.lib.SEGMENT_SIZE

\* ---------------------------------------------------------------- errors
\* ports/outbound/interrogator.py: the two exception families
InterrogationError ==
    {"FileEnvelopeDecryptionError", "DecryptionError", "ChecksumMismatchError"}

CantCompleteError == {"FileNotFoundError", "ReencryptionError"}

NoOutcome == [type |-> "none", site |-> "none", msg |-> <<>>]

\* str(err) of the two ChecksumMismatchError raises, as word sequences
ShaMismatchMsg ==
    <<"SHA-256", "checksum", "over", "unencrypted", "content", "does", "not",
      "match", "the", "value", "submitted", "with", "the", "file">>

EtagMismatchMsg ==
    <<"S3", "ETag", "didn't", "match", "the", "expected", "MD5", "checksum">>

\* ---------------------------------------------------------------- crypto
\* Keys are tagged so that no two of them are equal by accident.
NoKey == <<"none", 0>>
GarbageKey == <<"garbage", 0>>        \* a key nobody holds
OldKey(file_id) == <<"old", file_id>> \* session key inside the envelope
NewKey_Fixed(n) == <<"new", 0>>       \* the same bytes at every draw
NewKey(n) == <<"new", n>>             \* n-th draw of os.urandom

\* Plaintexts of segments are the integers from 1 on; 0 is no plaintext.
\* A local name of _process_file_parts that nothing was bound to yet:
Unbound == [key |-> NoKey, nonce |-> 0, pt |-> 0]

\* Interrogator._decrypt_part: decrypt_algo raises on a tag mismatch (wrong
\* key) or on any failure of the crypto library (fault); every exception
\* becomes DecryptionError.
_decrypt_part(encrypted_part, secret, fault) ==
    IF fault \/ encrypted_part.key # secret
    THEN [raised |-> "DecryptionError", value |-> 0]
    ELSE [raised |-> "none", value |-> encrypted_part.pt]

\* Interrogator._reencrypt_part on success: nonce || ciphertext || tag
\* under the new secret with a fresh os.urandom nonce.
_reencrypt_part(decrypted_part_, new_secret_, nonce) ==
    [key |-> new_secret_, nonce |-> nonce, pt |-> decrypted_part_]

\* ---------------------------------------------------------------- checksums
Md5Raw(part) == <<"md5", part.key, part.nonce, part.pt>>
Md5B64(part) == <<"b64md5", part.key, part.nonce, part.pt>>
Sha256Hex(part) == <<"sha256", part.key, part.nonce, part.pt>>
PlainSha256Hex(plaintexts) == [alg |-> "sha256", over |-> plaintexts]

EmptyChecksums ==
    [raw_md5 |-> <<>>, encrypted_md5 |-> <<>>, encrypted_sha256 |-> <<>>,
     unencrypted_sha256 |-> <<>>]

update_encrypted(cs, part) ==
    [cs EXCEPT !.raw_md5 = Append(@, Md5Raw(part)),
               !.encrypted_md5 = Append(@, Md5B64(part)),
               !.encrypted_sha256 = Append(@, Sha256Hex(part))]

update_unencrypted(cs, plaintext) ==
    [cs EXCEPT !.unencrypted_sha256 = Append(@, plaintext)]

unencrypted_hexdigest(cs) == PlainSha256Hex(cs.unencrypted_sha256)

\* hex(md5(concat(raw md5s))) + "-n"
EtagOf(raw_md5s) == [digest |-> raw_md5s, n |-> Len(raw_md5s)]
encrypted_checksum_for_s3(cs) == EtagOf(cs.raw_md5)

BadEtag == [digest |-> <<>>, n |-> 0]

\* a comparison that never finds a difference
ChecksumMismatch_Never(new_checksum, declared) == FALSE

\* Interrogator._compare_unencrypted_checksums raises iff this holds
ChecksumMismatch(new_checksum, declared) == new_checksum # declared

\* the ETag comparison left out
EtagMismatch_Skipped(expected_etag, actual_etag) == FALSE

\* Interrogator.interrogate_file lines 259-260
EtagMismatch(expected_etag, actual_etag) == expected_etag # actual_etag

\* ---------------------------------------------------------------- inputs
\* What the inbox holds for a file: the plaintexts of its segments, in
\* order.  Either every segment differs from the others or all are the same
\* bytes (a file of repeated content).
InboxContents(n) ==
    { [k \in 1..n |-> k] } \cup { [k \in 1..n |-> 1] }

\* A FileUpload as the pipeline uses it: id, the number of part ranges
\* calc_encrypted_part_ranges emits, and the declared plaintext SHA-256,
\* which is the digest of the content or of something else.
WrongSha256(content) == PlainSha256Hex(Append(content, 0))

FileUpload(id, content, sha_ok) ==
    [id |-> id, nparts |-> Len(content),
     decrypted_sha256 |-> IF sha_ok THEN PlainSha256Hex(content)
                          ELSE WrongSha256(content)]

\* a pending upload together with its inbox object
Pending(id) ==
    { [upload |-> FileUpload(id, c, ok), content |-> c, sha_ok |-> ok] :
        c \in UNION { InboxContents(n) : n \in 1..MaxParts }, ok \in BOOLEAN }

RECURSIVE Batches(_)
Batches(n) ==
    IF n = 0 THEN {<<>>}
    ELSE Batches(n - 1) \cup
         { Append(b, f) : b \in { x \in Batches(n - 1) : Len(x) = n - 1 },
                          f \in Pending(n) }

RECURSIVE BadShaCount(_)
BadShaCount(batch) ==
    IF batch = <<>> THEN 0
    ELSE BadShaCount(SubSeq(batch, 1, Len(batch) - 1))
         + (IF batch[Len(batch)].sha_ok THEN 0 ELSE 1)

VARIABLES
    pc, idx, new_files, inbox, outcome, escaped,
    old_secret, upload_id, new_secret, part_no, decrypted_part,
    reencrypted_part, checksums,
    mpus, objects, upload_ctr, rnd_ctr, faults,
    reports, log,
    \* one FileUpload seen at byte level: its two sizes, the true length of
    \* its envelope, the loop of calc_encrypted_part_ranges and the byte
    \* ranges read from its inbox object
    ppc, decrypted_size, encrypted_size, envelope_len, processed, ranges,
    fetch_no, fetched,
    \* one run of S3Cleaner.scan_and_clean: the keys of the interrogation
    \* bucket now and before the run, the listing, the central API's answer,
    \* the position in the delete loop and the delete calls made
    cpc, bucket, bucket_before, object_ids, removable_objects, delete_no,
    deletes,
    \* the two adapters called on their own: the last call made on S3Client
    \* with the bucket as it was before it; the clock and the requests
    \* CentralClient has sent
    last_call, now, requests

locals == <<old_secret, upload_id, new_secret, part_no, decrypted_part,
            reencrypted_part, checksums>>
store == <<mpus, objects, upload_ctr>>
pipeline == <<pc, idx, new_files, inbox, outcome, escaped,
              old_secret, upload_id, new_secret, part_no, decrypted_part,
              reencrypted_part, checksums,
              mpus, objects, upload_ctr, rnd_ctr, faults, reports, log>>
planner == <<ppc, decrypted_size, encrypted_size, envelope_len, processed,
             ranges, fetch_no, fetched>>
cleaner == <<cpc, bucket, bucket_before, object_ids, removable_objects,
             delete_no, deletes>>
adapters == <<last_call, now, requests>>
vars == <<pc, idx, new_files, inbox, outcome, escaped,
          old_secret, upload_id, new_secret, part_no, decrypted_part,
          reencrypted_part, checksums,
          mpus, objects, upload_ctr, rnd_ctr, faults, reports, log,
          ppc, decrypted_size, encrypted_size, envelope_len, processed,
          ranges, fetch_no, fetched,
          cpc, bucket, bucket_before, object_ids, removable_objects,
          delete_no, deletes, last_call, now, requests>>

file == new_files[idx]

None == {}
Some(x) == {x}

\* the `part` of a step that is not about one part range
NoPart == None

\* one entry of the trace of steps: what was done, for which file and part,
\* how it ended, and the plaintext a decryption gave
Entry(op, file_id, part, res, plain) ==
    [op |-> op, file |-> file_id, part |-> part, res |-> res, plain |-> plain]

Call(op, part, res) == Entry(op, file.id, part, res, None)

\* n more faults out of the environment's budget
Spend(n) ==
    /\ faults + n <= MaxFaults
    /\ faults' = faults + n

Bit(b) == IF b THEN 1 ELSE 0

\* an except clause that takes every exception
Caught_Any(type) == TRUE

\* An exception raised inside the try block of interrogate_new_files: the
\* except clause catches InterrogationError only; anything else propagates.
Caught(type) == type \in InterrogationError

Throw(type, site, msg) ==
    /\ outcome' = [outcome EXCEPT ![idx] =
                      [type |-> type, site |-> site, msg |-> msg]]
    /\ pc' = IF Caught(type) THEN "report_failure" ELSE "raised"
    /\ escaped' = IF Caught(type) THEN escaped ELSE type
    /\ idx' = idx

ResetLocals ==
    /\ old_secret' = NoKey
    /\ upload_id' = 0
    /\ new_secret' = NoKey
    /\ part_no' = 0
    /\ decrypted_part' = 0
    /\ reencrypted_part' = Unbound
    /\ checksums' = EmptyChecksums

\* the for loop of interrogate_new_files moves to the next file or ends
NextFile ==
    /\ idx' = idx + 1
    /\ pc' = IF idx = Len(new_files) THEN "done" ELSE "check_inbox"
    /\ UNCHANGED <<outcome, escaped>>
    /\ ResetLocals

\* the byte-level view is not in use
PlannerIdle ==
    /\ ppc = "idle"
    /\ decrypted_size = 0
    /\ encrypted_size = 0
    /\ envelope_len = 0
    /\ processed = 0
    /\ ranges = <<>>
    /\ fetch_no = 0
    /\ fetched = <<>>

\* no cleaner run
CleanerIdle ==
    /\ cpc = "idle"
    /\ bucket = {}
    /\ bucket_before = {}
    /\ object_ids = {}
    /\ removable_objects = <<>>
    /\ delete_no = 0
    /\ deletes = <<>>

NoCall == [op |-> "none"]

\* neither adapter called on its own
AdaptersIdle ==
    /\ last_call = NoCall
    /\ now = 0
    /\ requests = <<>>

\* a constructed Interrogator before interrogate_new_files is called
PipelineInit ==
    /\ pc = "start"
    /\ idx = 0
    /\ new_files = <<>>
    /\ inbox = <<>>
    /\ outcome = [i \in 1..MaxBatch |-> NoOutcome]
    /\ escaped = "none"
    /\ old_secret = NoKey
    /\ upload_id = 0
    /\ new_secret = NoKey
    /\ part_no = 0
    /\ decrypted_part = 0
    /\ reencrypted_part = Unbound
    /\ checksums = EmptyChecksums
    /\ mpus = {}
    /\ objects = {}
    /\ upload_ctr = 0
    /\ rnd_ctr = 0
    /\ faults = 0
    /\ reports = <<>>
    /\ log = <<>>

Init == PipelineInit /\ PlannerIdle /\ CleanerIdle /\ AdaptersIdle

\* ------------------------------------------------------------ object store
\* The interrogation bucket: open multipart uploads and completed objects.
UploadExists(uid, oid) ==
    \E m \in mpus : m.upload_id = uid /\ m.object_id = oid

TheUpload(uid, oid) ==
    CHOOSE m \in mpus : m.upload_id = uid /\ m.object_id = oid

ObjectBlocked(oid) ==
    \/ \E m \in mpus : m.object_id = oid
    \/ \E o \in objects : o.object_id = oid

\* abort_multipart_upload; a missing upload is only a warning
AbortedUploads(uid, oid) ==
    { m \in mpus : ~(m.upload_id = uid /\ m.object_id = oid) }

\* the part PUT of an open upload
WithPart(uid, oid, no, data, md5) ==
    { IF m.upload_id = uid /\ m.object_id = oid
      THEN [m EXCEPT !.parts = Append(@, [no |-> no, data |-> data, md5 |-> md5])]
      ELSE m : m \in mpus }

\* the ETag S3 computes for a multipart object
StoreEtag(parts) == EtagOf([i \in 1..Len(parts) |-> Md5Raw(parts[i].data)])

\* Interrogator._extract_secret: crypt4gh.header.deconstruct gives the
\* session key or raises ValueError; nothing converts that exception.
_extract_secret(envelope) ==
    IF envelope.decodable
    THEN [raised |-> "none", value |-> envelope.session_key]
    ELSE [raised |-> "ValueError", value |-> NoKey]

\* every PUT answered as if it had succeeded
PartAccepted_Any(status) == TRUE

\* S3Client.upload_file_part returns only on status 200
PartAccepted(status) == status = "200"

\* the 400 branch left out
UploadStatusError_No400(status) == "UploadError"

\* status -> exception of S3Client.upload_file_part
UploadStatusError(status) ==
    IF status = "400" THEN "BadPartMD5Error" ELSE "UploadError"

\* The bodies a 200 answer of the central API can carry, by what
\* response.json() makes of them.
ArrayBodies ==
    {"empty_array", "array_of_records", "array_with_invalid_record",
     "array_of_strings", "array_with_number"}
Bodies ==
    {"not_json", "null", "number", "string", "empty_object", "object"}
        \cup ArrayBodies

\* CentralClient._response_to_file_upload_list: map() over the parsed body
\* with FileUpload.model_validate; JSONDecodeError and ValidationError
\* become ResponseFormatError.  A body that cannot be iterated raises
\* TypeError, which is not caught; an object is iterated over its keys and
\* a string over its characters.
_response_to_file_upload_list(body) ==
    CASE body = "not_json" -> "ResponseFormatError"
      [] body \in {"null", "number"} -> "TypeError"
      [] body \in {"empty_object", "empty_array", "array_of_records"}
            -> "returned"
      [] OTHER -> "ResponseFormatError"

\* CentralClient._response_to_file_id_list: anything that is a list is
\* returned as it is; JSONDecodeError and TypeError become
\* ResponseFormatError.
_response_to_file_id_list(body) ==
    IF body \in ArrayBodies THEN "returned" ELSE "ResponseFormatError"

\* any answer taken for a list of uploads
ResponseOk_Any(status) == TRUE

\* CentralClient.fetch_new_uploads line 123
ResponseOk(status) == status = "200"

\* --------------------------------------------------------------- actions
\* interrogate_new_files line 62 with CentralClient.fetch_new_uploads
fetch_new_uploads ==
    /\ pc = "start"
    /\ \E status \in {"200", "500"}, body \in Bodies,
          batch \in Batches(MaxBatch) :
         /\ log' = Append(log, Entry("fetch_new_uploads", 0, NoPart, status, None))
         /\ IF ~ResponseOk(status)
            THEN /\ pc' = "raised"
                 /\ escaped' = "CentralAPIError"
                 /\ Spend(1)
                 /\ UNCHANGED <<idx, new_files, inbox>>
            ELSE IF _response_to_file_upload_list(body) # "returned"
            THEN /\ pc' = "raised"
                 /\ escaped' = _response_to_file_upload_list(body)
                 /\ Spend(1)
                 /\ UNCHANGED <<idx, new_files, inbox>>
            ELSE /\ (batch # <<>>) <=> (body = "array_of_records")
                 /\ new_files' = [i \in 1..Len(batch) |-> batch[i].upload]
                 /\ inbox' = [i \in 1..Len(batch) |-> batch[i].content]
                 /\ Spend(BadShaCount(batch))
                 /\ idx' = 1
                 /\ pc' = IF batch = <<>> THEN "done" ELSE "check_inbox"
                 /\ UNCHANGED escaped
    /\ UNCHANGED <<planner, cleaner, adapters>>
    /\ UNCHANGED <<outcome, locals, store, rnd_ctr, reports>>

\* a file taken to be in the inbox whatever the store says
InboxCheckRaises_Never(present) == "none"

\* interrogate_new_files lines 66-67: the guard in front of interrogate_file
InboxCheckRaises(present) ==
    IF ~present THEN "FileNotFoundError" ELSE "none"

\* interrogate_new_files lines 66-67
get_is_file_in_inbox ==
    /\ pc = "check_inbox"
    /\ \E present \in BOOLEAN :
         /\ log' = Append(log, Call("get_is_file_in_inbox", NoPart,
                                    IF present THEN "true" ELSE "false"))
         /\ Spend(Bit(~present))
         /\ IF InboxCheckRaises(present) = "none"
            THEN /\ pc' = "fetch_secret"
                 /\ UNCHANGED <<idx, outcome, escaped>>
            ELSE Throw(InboxCheckRaises(present), "inbox", <<>>)
    /\ UNCHANGED <<planner, cleaner, adapters>>
    /\ UNCHANGED <<new_files, inbox, locals, store, rnd_ctr, reports>>

\* interrogate_file line 222: _fetch_original_secret.  The object store is
\* whatever implements the port handed to the constructor; a call it cannot
\* serve ends in an error that is not an InterrogationError ("DownloadError"
\* stands for all of them).
_fetch_original_secret ==
    /\ pc = "fetch_secret"
    /\ \E resp \in {"ok", "DownloadError"}, decodable \in BOOLEAN :
         LET envelope == [decodable |-> decodable,
                          session_key |-> OldKey(file.id)]
             secret == _extract_secret(envelope)
         IN  IF resp # "ok"
             THEN /\ decodable
                  /\ Spend(1)
                  /\ log' = Append(log, Call("fetch_envelope", NoPart, resp))
                  /\ Throw("DownloadError", "fetch_envelope", <<>>)
                  /\ UNCHANGED old_secret
             ELSE IF secret.raised # "none"
             THEN /\ Spend(1)
                  /\ log' = log \o <<Call("fetch_envelope", NoPart, resp),
                                     Call("_extract_secret", NoPart, "ValueError")>>
                  /\ Throw("ValueError", "envelope", <<>>)
                  /\ UNCHANGED old_secret
             ELSE /\ Spend(0)
                  /\ log' = log \o <<Call("fetch_envelope", NoPart, resp),
                                     Call("_extract_secret", NoPart, "ok")>>
                  /\ old_secret' = secret.value
                  /\ pc' = "init_upload"
                  /\ UNCHANGED <<idx, outcome, escaped>>
    /\ UNCHANGED <<planner, cleaner, adapters>>
    /\ UNCHANGED <<new_files, inbox, upload_id, new_secret, part_no,
                   decrypted_part, reencrypted_part, checksums, store, rnd_ctr,
                   reports>>

\* interrogate_file lines 225-231 and the first lines of _process_file_parts
init_interrogation_bucket_upload ==
    /\ pc = "init_upload"
    /\ \E fault \in BOOLEAN :
         /\ Spend(Bit(fault))
         /\ IF fault \/ ObjectBlocked(file.id)
            THEN /\ log' = Append(log, Call("init_interrogation_bucket_upload",
                                            NoPart, "UploadInitError"))
                 /\ Throw("UploadInitError", "init", <<>>)
                 /\ UNCHANGED <<upload_id, new_secret, checksums, store, rnd_ctr>>
            ELSE /\ log' = Append(log, Call("init_interrogation_bucket_upload",
                                            NoPart, "ok"))
                 /\ upload_ctr' = upload_ctr + 1
                 /\ upload_id' = upload_ctr + 1
                 /\ mpus' = mpus \cup {[upload_id |-> upload_ctr + 1,
                                        object_id |-> file.id, parts |-> <<>>]}
                 /\ new_secret' = NewKey(rnd_ctr + 1)
                 /\ rnd_ctr' = rnd_ctr + 1
                 /\ checksums' = EmptyChecksums
                 /\ pc' = "fetch_part"
                 /\ UNCHANGED <<idx, outcome, escaped, objects>>
    /\ UNCHANGED <<planner, cleaner, adapters>>
    /\ UNCHANGED <<new_files, inbox, old_secret, part_no, decrypted_part,
                   reencrypted_part, reports>>

\* _process_file_parts lines 163-174: fetch the range and decrypt it under
\* the old secret.  A segment that was damaged or encrypted under another
\* key does not authenticate under the old secret.
_fetch_and_decrypt_part ==
    /\ pc = "fetch_part"
    /\ \E resp \in {"ok", "DownloadError"}, intact \in BOOLEAN :
         LET part == [key |-> IF intact THEN OldKey(file.id) ELSE GarbageKey,
                      nonce |-> 0, pt |-> inbox[idx][part_no + 1]]
             decrypted == _decrypt_part(part, old_secret, FALSE)
         IN  IF resp # "ok"
             THEN /\ intact
                  /\ Spend(1)
                  /\ log' = Append(log, Call("fetch_file_part", Some(part_no), resp))
                  /\ Throw("DownloadError", "fetch_part", <<>>)
                  /\ UNCHANGED decrypted_part
             ELSE IF decrypted.raised # "none"
             THEN /\ Spend(1)
                  /\ log' = log \o <<Call("fetch_file_part", Some(part_no), resp),
                                     Call("initial_decrypt", Some(part_no),
                                          "DecryptionError")>>
                  /\ Throw("DecryptionError", "initial_decrypt", <<>>)
                  /\ UNCHANGED decrypted_part
             ELSE /\ Spend(0)
                  /\ log' = log \o <<Call("fetch_file_part", Some(part_no), resp),
                                     Entry("initial_decrypt", file.id,
                                           Some(part_no), "ok",
                                           Some(decrypted.value))>>
                  /\ decrypted_part' = decrypted.value
                  /\ pc' = "reencrypt_part"
                  /\ UNCHANGED <<idx, outcome, escaped>>
    /\ UNCHANGED <<planner, cleaner, adapters>>
    /\ UNCHANGED <<new_files, inbox, old_secret, upload_id, new_secret, part_no,
                   reencrypted_part, checksums, store, rnd_ctr, reports>>

\* a part digested twice
AfterPart_Twice(cs, part, plain) ==
    update_unencrypted(update_encrypted(update_encrypted(cs, part), part),
                       plain)

\* _process_file_parts lines 207-208: the part that is about to be uploaded
\* goes into the encrypted digests, its plaintext into the rolling digest
AfterPart(cs, part, plain) ==
    update_unencrypted(update_encrypted(cs, part), plain)

\* the rolling digest fed from the initial decryption
RollingInput_Initial(initial, confirmed) == initial

\* _process_file_parts lines 189-208: decrypted_part is bound anew by the
\* confirmatory decryption before checksums.update_unencrypted reads it
RollingInput(initial, confirmed) == confirmed

\* _process_file_parts lines 176-216: re-encrypt, confirmatory decryption,
\* checksum update and upload of one part.  A ReencryptionError is logged
\* and not re-raised (lines 182-185), so `reencrypted_part` keeps what the
\* previous iteration bound to it, or is unbound in the first iteration.
_reencrypt_and_upload_part ==
    /\ pc = "reencrypt_part"
    /\ \E enc_fault \in BOOLEAN, dec_fault \in BOOLEAN,
          status \in {"200", "400", "500"} :
         LET part == IF enc_fault
                     THEN reencrypted_part
                     ELSE _reencrypt_part(decrypted_part, new_secret, rnd_ctr + 1)
             enc_res == IF enc_fault THEN "ReencryptionError" ELSE "ok"
             confirm == _decrypt_part(part, new_secret, dec_fault)
             cs == AfterPart(checksums, part,
                             RollingInput(decrypted_part, confirm.value))
             steps == <<Call("_reencrypt_part", Some(part_no), enc_res)>>
         IN  /\ rnd_ctr' = IF enc_fault THEN rnd_ctr ELSE rnd_ctr + 1
             /\ IF part = Unbound
                THEN /\ ~dec_fault /\ status = "200"
                     /\ Spend(1)
                     /\ log' = log \o steps
                     /\ Throw("UnboundLocalError", "reencrypt", <<>>)
                     /\ UNCHANGED <<part_no, decrypted_part, reencrypted_part,
                                    checksums, mpus>>
                ELSE IF confirm.raised # "none"
                THEN /\ status = "200"
                     /\ Spend(Bit(enc_fault) + 1)
                     /\ log' = log \o steps \o
                           <<Call("confirm_decrypt", Some(part_no),
                                  "DecryptionError")>>
                     /\ Throw("DecryptionError", "confirm_decrypt", <<>>)
                     /\ reencrypted_part' = part
                     /\ UNCHANGED <<part_no, decrypted_part, checksums, mpus>>
                ELSE /\ Spend(Bit(enc_fault) + Bit(status # "200"))
                     /\ log' = log \o steps \o
                           <<Entry("confirm_decrypt", file.id, Some(part_no),
                                   "ok", Some(confirm.value)),
                             Call("upload_file_part", Some(part_no), status)>>
                     /\ reencrypted_part' = part
                     /\ decrypted_part' = confirm.value
                     /\ checksums' = cs
                     /\ IF PartAccepted(status)
                        THEN /\ mpus' = WithPart(upload_id, file.id, part_no, part,
                                           cs.encrypted_md5[Len(cs.encrypted_md5)])
                             /\ part_no' = part_no + 1
                             /\ pc' = IF part_no + 1 = file.nparts
                                      THEN "compare" ELSE "fetch_part"
                             /\ UNCHANGED <<idx, outcome, escaped>>
                        ELSE /\ Throw(UploadStatusError(status), "upload", <<>>)
                             /\ UNCHANGED <<part_no, mpus>>
    /\ UNCHANGED <<planner, cleaner, adapters>>
    /\ UNCHANGED <<new_files, inbox, old_secret, upload_id, new_secret, objects,
                   upload_ctr, reports>>

\* interrogate_file lines 242-251
_compare_unencrypted_checksums ==
    /\ pc = "compare"
    /\ IF ChecksumMismatch(unencrypted_hexdigest(checksums), file.decrypted_sha256)
       THEN \E resp \in {"ok", "S3Error"} :
              /\ Spend(Bit(resp # "ok"))
              /\ log' = Append(log, Call("abort_upload", NoPart, resp))
              /\ IF resp = "ok"
                 THEN /\ mpus' = AbortedUploads(upload_id, file.id)
                      /\ Throw("ChecksumMismatchError", "sha256", ShaMismatchMsg)
                 ELSE /\ mpus' = mpus
                      /\ Throw("S3Error", "abort", <<>>)
       ELSE /\ pc' = "complete"
            /\ UNCHANGED <<idx, outcome, escaped, mpus, log, faults>>
    /\ UNCHANGED <<planner, cleaner, adapters>>
    /\ UNCHANGED <<new_files, inbox, locals, objects, upload_ctr, rnd_ctr,
                   reports>>

\* interrogate_file lines 253-265
complete_upload ==
    /\ pc = "complete"
    /\ \E fault \in BOOLEAN, etag_intact \in BOOLEAN :
         IF fault \/ ~UploadExists(upload_id, file.id)
         THEN /\ etag_intact
              /\ Spend(Bit(fault))
              /\ log' = Append(log, Call("complete_upload", NoPart,
                                         "UploadCompletionError"))
              /\ Throw("UploadCompletionError", "complete", <<>>)
              /\ UNCHANGED <<mpus, objects>>
         ELSE LET m == TheUpload(upload_id, file.id)
                  actual_etag == IF etag_intact THEN StoreEtag(m.parts)
                                 ELSE BadEtag
              IN  /\ Spend(Bit(~etag_intact))
                  /\ log' = Append(log, Call("complete_upload", NoPart, "ok"))
                  /\ mpus' = mpus \ {m}
                  /\ objects' = objects \cup
                        {[object_id |-> file.id, parts |-> m.parts,
                          etag |-> actual_etag]}
                  /\ IF EtagMismatch(encrypted_checksum_for_s3(checksums),
                                     actual_etag)
                     THEN Throw("ChecksumMismatchError", "etag", EtagMismatchMsg)
                     ELSE /\ pc' = "report_success"
                          /\ UNCHANGED <<idx, outcome, escaped>>
    /\ UNCHANGED <<planner, cleaner, adapters>>
    /\ UNCHANGED <<new_files, inbox, locals, upload_ctr, rnd_ctr, reports>>

\* CentralClient.submit_interrogation_report lines 165-168: any status but
\* 201 raises CentralAPIError, in report_failure from inside the except
\* clause, so it propagates in both cases.
SubmitRaises(status) ==
    IF status # "201" THEN "CentralAPIError" ELSE "none"

\* report_success is awaited inside the try block of interrogate_new_files,
\* report_failure inside its except clause

Submitted(status, in_try) ==
    IF SubmitRaises(status) = "none"
    THEN NextFile
    ELSE IF in_try /\ Caught(SubmitRaises(status))
    THEN /\ Throw(SubmitRaises(status), "report", <<>>)
         /\ UNCHANGED locals
    ELSE /\ pc' = "raised"
         /\ escaped' = "CentralAPIError"
         /\ UNCHANGED <<idx, outcome, locals>>

\* a report whose two digest lists changed places
SuccessReport_Swapped(file_id, secret, encrypted_parts_md5, encrypted_parts_sha256) ==
    [file_id |-> file_id, passed |-> TRUE, secret |-> Some(secret),
     encrypted_parts_md5 |-> Some(encrypted_parts_sha256),
     encrypted_parts_sha256 |-> Some(encrypted_parts_md5),
     reason |-> None]

\* a passed report that also carries a reason
SuccessReport_WithReason(file_id, secret, encrypted_parts_md5, encrypted_parts_sha256) ==
    [file_id |-> file_id, passed |-> TRUE, secret |-> Some(secret),
     encrypted_parts_md5 |-> Some(encrypted_parts_md5),
     encrypted_parts_sha256 |-> Some(encrypted_parts_sha256),
     reason |-> Some(<<>>)]

\* the InterrogationReport built by Interrogator.report_success
SuccessReport(file_id, secret, encrypted_parts_md5, encrypted_parts_sha256) ==
    [file_id |-> file_id, passed |-> TRUE, secret |-> Some(secret),
     encrypted_parts_md5 |-> Some(encrypted_parts_md5),
     encrypted_parts_sha256 |-> Some(encrypted_parts_sha256),
     reason |-> None]

\* base64.urlsafe_b64encode and its inverse
urlsafe_b64encode(bytes) == <<"b64url", bytes>>
urlsafe_b64decode(text) ==
    IF text[1] = "b64url" THEN text[2] ELSE <<"garbage", 0>>

\* the key pair of GHGA Central; the client is configured with the public
\* half
central_api_public_key == <<"central", "public">>
central_api_private_key == <<"central", "private">>

\* ghga_service_commons.utils.crypt: a text encrypted to a public key is
\* opened by the private key of the same pair only
encrypt(text, key) == <<"sealed", key[1], text>>
decrypt(sealed, key) ==
    IF sealed[1] = "sealed" /\ sealed[2] = key[1] /\ key[2] = "private"
    THEN sealed[3] ELSE <<"garbage", 0>>

\* the secret put on the wire encoded but not encrypted
WireSecret_Encoded(secret) == urlsafe_b64encode(secret)

\* submit_interrogation_report lines 155-158
WireSecret(secret) ==
    encrypt(urlsafe_b64encode(secret), central_api_public_key)

\* report.model_dump(mode="json"): a SecretBytes is dumped as a row of
\* asterisks, never as its value
model_dump(report) ==
    [report EXCEPT !.secret = IF @ = None THEN None ELSE Some("**********")]

\* submit_interrogation_report lines 152-158: the JSON body of the POST
WireBody(report) ==
    IF report.secret # None
    THEN [model_dump(report) EXCEPT
            !.secret = Some(WireSecret(CHOOSE x \in report.secret : TRUE))]
    ELSE model_dump(report)

\* interrogate_file lines 267-273 with report_success
report_success ==
    /\ pc = "report_success"
    /\ \E status \in {"201", "200", "500"} :
         /\ Spend(Bit(status # "201"))
         /\ LET report == SuccessReport(file.id, new_secret,
                                         checksums.encrypted_md5,
                                         checksums.encrypted_sha256)
            IN  /\ reports' = Append(reports, report)
                /\ requests' = Append(requests, WireBody(report))
         /\ log' = Append(log, Call("submit_interrogation_report", NoPart, status))
         /\ Submitted(status, TRUE)
    /\ UNCHANGED <<planner, cleaner, last_call, now>>
    /\ UNCHANGED <<new_files, inbox, store, rnd_ctr>>

\* interrogate_new_files lines 69-70 with report_failure
report_failure ==
    /\ pc = "report_failure"
    /\ \E status \in {"201", "200", "500"} :
         /\ Spend(Bit(status # "201"))
         /\ LET report == [file_id |-> file.id, passed |-> FALSE,
                            secret |-> None, encrypted_parts_md5 |-> None,
                            encrypted_parts_sha256 |-> None,
                            reason |-> Some(outcome[idx].msg)]
            IN  /\ reports' = Append(reports, report)
                /\ requests' = Append(requests, WireBody(report))
         /\ log' = Append(log, Call("submit_interrogation_report", NoPart, status))
         /\ Submitted(status, FALSE)
    /\ UNCHANGED <<planner, cleaner, last_call, now>>
    /\ UNCHANGED <<new_files, inbox, store, rnd_ctr>>

Next ==
    \/ fetch_new_uploads
    \/ get_is_file_in_inbox
    \/ _fetch_original_secret
    \/ init_interrogation_bucket_upload
    \/ _fetch_and_decrypt_part
    \/ _reencrypt_and_upload_part
    \/ _compare_unencrypted_checksums
    \/ complete_upload
    \/ report_success
    \/ report_failure

Spec == Init /\ [][Next]_vars

\* ------------------------------------------------------------------
\* run_interrogator started again after a run that ended with an error
\* ------------------------------------------------------------------

MaxRuns == 2

\* the runs so far: each one begins with fetch_new_uploads
RunNo == Cardinality({ k \in DOMAIN log : log[k].op = "fetch_new_uploads" })

\* run_interrogator builds a new Interrogator and calls
\* interrogate_new_files; the buckets are what the last run left
run_interrogator ==
    /\ pc = "raised"
    /\ RunNo < MaxRuns
    /\ pc' = "start"
    /\ idx' = 0
    /\ new_files' = <<>>
    /\ inbox' = <<>>
    /\ outcome' = [i \in 1..MaxBatch |-> NoOutcome]
    /\ escaped' = "none"
    /\ ResetLocals
    /\ UNCHANGED <<store, rnd_ctr, faults, reports, log>>
    /\ UNCHANGED <<planner, cleaner, adapters>>

RetryNext ==
    \/ Next
    \/ run_interrogator

RetrySpec == Init /\ [][RetryNext]_vars

\* ------------------------------------------------------------------
\* the two commands of the command line: interrogate and cleanup
\* ------------------------------------------------------------------

Process(command, exit) == [op |-> command, exit |-> exit]

Running == last_call = Process("interrogate", "running")

\* cli.sync_run_api: asyncio.run(run_interrogator()), up to the call of
\* interrogate_new_files
sync_run_api ==
    /\ last_call = NoCall
    /\ pc = "start"
    /\ last_call' = Process("interrogate", "running")
    /\ UNCHANGED <<now, requests, pipeline, planner, cleaner>>

\* run_interrogator after interrogate_new_files: an exception of the call
\* leaves the process; after a normal return line 32 raises
\* NotImplementedError
run_interrogator_end ==
    /\ Running
    /\ pc \in {"done", "raised"}
    /\ last_call' = Process("interrogate",
                            IF pc = "raised" THEN escaped
                            ELSE "NotImplementedError")
    /\ UNCHANGED <<now, requests, pipeline, planner, cleaner>>

\* cli.sync_run_consume_events: asyncio.run(perform_cleanup()), which
\* configures logging and raises NotImplementedError at line 40; no cleaner
\* is built
sync_run_consume_events ==
    /\ last_call = NoCall
    /\ pc = "start"
    /\ last_call' = Process("cleanup", "NotImplementedError")
    /\ UNCHANGED <<now, requests, pipeline, planner, cleaner>>

\* the cleaner as perform_cleanup leaves it
CommandInit ==
    /\ PipelineInit
    /\ PlannerIdle
    /\ CleanerIdle
    /\ AdaptersIdle

CommandNext ==
    \/ sync_run_api
    \/ Running /\ Next
    \/ run_interrogator_end
    \/ sync_run_consume_events

CommandSpec == CommandInit /\ [][CommandNext]_vars

\* ===================================================================
\* One FileUpload at byte level: FileUpload.offset,
\* FileUpload.calc_encrypted_part_ranges and the byte ranges the
\* Interrogator reads from the inbox object through the object store.
\* ===================================================================
Min(a, b) == IF a < b THEN a ELSE b

\* length of the Crypt4GH ciphertext of d plaintext bytes, without envelope
CiphertextSize(d) ==
    (d \div SEGMENT_SIZE) * (NONCE_LENGTH + SEGMENT_SIZE + AUTH_TAG_LENGTH)
    + (IF d % SEGMENT_SIZE > 0
       THEN (d % SEGMENT_SIZE) + NONCE_LENGTH + AUTH_TAG_LENGTH
       ELSE 0)

\* plaintext sizes: up to MaxSegments full segments and a leftover
Remainders == {0, 1, 10, SEGMENT_SIZE - 1}
PlainSizes ==
    { q * SEGMENT_SIZE + r : q \in 0..MaxSegments, r \in Remainders }

\* envelope lengths: none, and one or two header packets
EnvelopeLens == {0, 124, 232}

\* FileUpload.offset
offset(decrypted_size_, encrypted_size_) ==
    LET chunk_size == NONCE_LENGTH + SEGMENT_SIZE + AUTH_TAG_LENGTH
        chunks == decrypted_size_ \div SEGMENT_SIZE
        unencrypted_remainder == decrypted_size_ - SEGMENT_SIZE * chunks
        size_sans_envelope ==
            (chunk_size * chunks)
            + (unencrypted_remainder + NONCE_LENGTH + AUTH_TAG_LENGTH)
    IN  encrypted_size_ - size_sans_envelope

\* calc_encrypted_part_ranges line 73
file_size == encrypted_size - offset(decrypted_size, encrypted_size)

\* a range end that is not cut at the end of the file
RangeEnd_Unclamped(processed_, file_size_) == processed_

\* calc_encrypted_part_ranges line 79
RangeEnd(processed_, file_size_) == Min(processed_, file_size_)

\* S3Client.fetch_file_content_range line 157: the Range header sent for
\* (start, stop)
WireRange(start, stop) == [first |-> start, last |-> stop]

\* What a GET with that Range header gives for an object of `size` bytes:
\* the bytes first..last cut at the end of the object (206); nothing when
\* first is past the end (416, DownloadError); for a header that is no
\* byte range (last < first) a store ignores it and sends the whole object
\* (200) or refuses the request.
ReadOutcomes(wire, size) ==
    IF wire.first < 0 \/ wire.last < wire.first
    THEN {[res |-> "DownloadError", first |-> 0, last |-> 0 - 1]} \cup
         (IF size > 0
          THEN {[res |-> "200", first |-> 0, last |-> size - 1]} ELSE {})
    ELSE IF wire.first >= size
    THEN {[res |-> "DownloadError", first |-> 0, last |-> 0 - 1]}
    ELSE {[res |-> "206", first |-> wire.first,
           last |-> Min(wire.last, size - 1)]}

\* one read of the inbox object, as asked for and as answered
Fetch(kind, no, start, stop, wire, got) ==
    [kind |-> kind, no |-> no, start |-> start, stop |-> stop,
     wire |-> wire, res |-> got.res, first |-> got.first, last |-> got.last]

\* a pending FileUpload whose encrypted_size is the size of its inbox
\* object: envelope plus Crypt4GH ciphertext of decrypted_size bytes
PlanInit ==
    /\ PipelineInit
    /\ CleanerIdle
    /\ AdaptersIdle
    /\ ppc = "fetch_envelope"
    /\ decrypted_size \in PlainSizes
    /\ envelope_len \in EnvelopeLens
    /\ encrypted_size = envelope_len + CiphertextSize(decrypted_size)
    /\ processed = 0
    /\ ranges = <<>>
    /\ fetch_no = 0
    /\ fetched = <<>>

\* Interrogator._fetch_original_secret lines 74-76
fetch_envelope ==
    /\ ppc = "fetch_envelope"
    /\ LET stop == offset(decrypted_size, encrypted_size)
           wire == WireRange(0, stop)
       IN  \E got \in ReadOutcomes(wire, encrypted_size) :
             /\ fetched' = Append(fetched,
                               Fetch("envelope", 0, 0, stop, wire, got))
             /\ ppc' = IF got.res = "DownloadError" THEN "raised" ELSE "calc"
    /\ UNCHANGED <<decrypted_size, encrypted_size, envelope_len, processed,
                   ranges, fetch_no, pipeline, cleaner, adapters>>

\* one iteration of the while loop of calc_encrypted_part_ranges, or its end
calc_encrypted_part_ranges ==
    /\ ppc = "calc"
    /\ IF processed < file_size
       THEN LET start == processed
                next == processed + NONCE_LENGTH + SEGMENT_SIZE
                        + AUTH_TAG_LENGTH
            IN  /\ processed' = next
                /\ ranges' = Append(ranges,
                      [start |-> start, stop |-> RangeEnd(next, file_size)])
                /\ ppc' = ppc
       ELSE /\ ppc' = IF ranges = <<>> THEN "done" ELSE "fetch_part"
            /\ UNCHANGED <<processed, ranges>>
    /\ UNCHANGED <<decrypted_size, encrypted_size, envelope_len, fetch_no,
                   fetched, pipeline, cleaner, adapters>>

\* Interrogator._fetch_and_decrypt_part lines 91-93 for the next range of
\* the loop of _process_file_parts
fetch_file_part ==
    /\ ppc = "fetch_part"
    /\ LET part_range == ranges[fetch_no + 1]
           wire == WireRange(part_range.start, part_range.stop)
       IN  \E got \in ReadOutcomes(wire, encrypted_size) :
             /\ fetched' = Append(fetched,
                   Fetch("part", fetch_no, part_range.start, part_range.stop,
                         wire, got))
             /\ IF got.res = "DownloadError"
                THEN ppc' = "raised" /\ fetch_no' = fetch_no
                ELSE /\ fetch_no' = fetch_no + 1
                     /\ ppc' = IF fetch_no + 1 = Len(ranges)
                               THEN "done" ELSE "fetch_part"
    /\ UNCHANGED <<decrypted_size, encrypted_size, envelope_len, processed,
                   ranges, pipeline, cleaner, adapters>>

PlanNext ==
    \/ fetch_envelope
    \/ calc_encrypted_part_ranges
    \/ fetch_file_part

PlanSpec == PlanInit /\ [][PlanNext]_vars

\* ===================================================================
\* S3Cleaner.scan_and_clean on the interrogation bucket
\* ===================================================================
Keys == 1..MaxKeys

RECURSIVE SortedSeq(_)
SortedSeq(set) ==
    IF set = {} THEN <<>>
    ELSE LET least == CHOOSE x \in set : \A y \in set : x <= y
         IN  <<least>> \o SortedSeq(set \ {least})

Elems(seq) == { seq[k] : k \in DOMAIN seq }

\* the lists the central API can answer with: any ids, asked for or not,
\* repeated or not
Answers == UNION { [1..n -> Keys] : n \in 0..MaxAnswer }

\* a loop over the listing instead of the answer
ToDelete_Listed(listed, approved) == listed

\* scan_and_clean line 80: the ids the loop runs over
ToDelete(listed, approved) == approved

CleanInit ==
    /\ PipelineInit
    /\ PlannerIdle
    /\ AdaptersIdle
    /\ cpc = "list"
    /\ bucket \in SUBSET Keys
    /\ bucket_before = bucket
    /\ object_ids = <<>>
    /\ removable_objects = <<>>
    /\ delete_no = 0
    /\ deletes = <<>>

\* scan_and_clean lines 57-73
list_all_object_ids ==
    /\ cpc = "list"
    /\ \E res \in {"ok", "StorageAliasNotConfiguredError", "S3Error"} :
         IF res = "ok"
         THEN /\ object_ids' = SortedSeq(bucket)
              /\ cpc' = "ask"
         ELSE /\ cpc' = res
              /\ UNCHANGED object_ids
    /\ UNCHANGED <<bucket, bucket_before, removable_objects, delete_no,
                   deletes, pipeline, planner, adapters>>

\* scan_and_clean line 78 with CentralClient.get_removable_files
get_removable_files ==
    /\ cpc = "ask"
    /\ \E status \in {"200", "500"}, body \in Bodies, answer \in Answers :
         IF status # "200"
         THEN /\ answer = <<>>
              /\ cpc' = "CentralAPIError"
              /\ UNCHANGED removable_objects
         ELSE IF _response_to_file_id_list(body) # "returned"
         THEN /\ answer = <<>>
              /\ cpc' = "ResponseFormatError"
              /\ UNCHANGED removable_objects
         ELSE \* the loop passes str(object_id) to the storage: the answer
              \* is kept as the strings of its elements
              /\ (answer = <<>>) <=> (body = "empty_array")
              /\ removable_objects' = answer
              /\ cpc' = "delete"
    /\ UNCHANGED <<bucket, bucket_before, object_ids, delete_no, deletes,
                   pipeline, planner, adapters>>

\* scan_and_clean lines 80-91: one iteration of the loop, or its end.  The
\* store deletes a key it holds unless it fails; for a key it does not hold
\* it raises or does nothing.  Every exception becomes S3CleanupError.
delete_object ==
    /\ cpc = "delete"
    /\ LET todo == ToDelete(object_ids, removable_objects)
       IN  IF delete_no = Len(todo)
           THEN /\ cpc' = "done"
                /\ UNCHANGED <<bucket, delete_no, deletes>>
           ELSE LET object_id == todo[delete_no + 1]
                IN  \E res \in {"ok", "error"} :
                      /\ deletes' = Append(deletes,
                            [object_id |-> object_id, res |-> res,
                             held |-> object_id \in bucket])
                      /\ IF res = "ok"
                         THEN /\ bucket' = bucket \ {object_id}
                              /\ delete_no' = delete_no + 1
                              /\ cpc' = cpc
                         ELSE /\ cpc' = "S3CleanupError"
                              /\ UNCHANGED <<bucket, delete_no>>
    /\ UNCHANGED <<bucket_before, object_ids, removable_objects, pipeline,
                   planner, adapters>>

CleanNext ==
    \/ list_all_object_ids
    \/ get_removable_files
    \/ delete_object

CleanSpec == CleanInit /\ [][CleanNext]_vars

\* ------------------------------------------------------------------
\* S3Client on the interrogation bucket, its methods called in any order
\* ------------------------------------------------------------------

MaxObjects == 2
MaxUploads == 2

ObjectIds == 1..MaxObjects

\* exceptions the object storage raises whatever the bucket holds
StorageFaults == {"none", "BucketNotFoundError", "Exception"}

\* the state of the pipeline that S3Client does not touch
driver == <<pc, idx, new_files, inbox, outcome, escaped, locals, rnd_ctr,
            faults, reports, log>>

Snapshot == [mpus |-> mpus, objects |-> objects]

Record(op, uid, oid, exc, res) ==
    [op |-> op, upload_id |-> uid, object_id |-> oid, storage_exc |-> exc,
     res |-> res, before |-> Snapshot]

\* what init_multipart_upload raises: an upload or an object of that id
\* is in the way
init_multipart_upload_exc(oid, fault) ==
    IF fault # "none" THEN fault
    ELSE IF \E m \in mpus : m.object_id = oid
         THEN "MultiPartUploadAlreadyExistsError"
    ELSE IF \E o \in objects : o.object_id = oid
         THEN "ObjectAlreadyExistsError"
    ELSE "none"

\* every storage exception but BucketNotFoundError taken for that one
InitRaises_BucketOnly(exc) ==
    IF exc = "none" THEN "none" ELSE "BucketNotFoundError"

\* S3Client.init_interrogation_bucket_upload, the except clauses
InitRaises(exc) ==
    CASE exc = "none" -> "none"
      [] exc = "BucketNotFoundError" -> "BucketNotFoundError"
      [] OTHER -> "UploadInitError"

S3Client_init_interrogation_bucket_upload ==
    \E oid \in ObjectIds, fault \in StorageFaults :
        LET exc == init_multipart_upload_exc(oid, fault)
            res == InitRaises(exc)
        IN  /\ upload_ctr < MaxUploads
            /\ IF exc = "none"
               THEN /\ upload_ctr' = upload_ctr + 1
                    /\ mpus' = mpus \cup {[upload_id |-> upload_ctr + 1,
                                           object_id |-> oid, parts |-> <<>>]}
                    /\ last_call' = Record("init_interrogation_bucket_upload",
                                           upload_ctr + 1, oid, exc, res)
               ELSE /\ last_call' = Record("init_interrogation_bucket_upload",
                                           0, oid, exc, res)
                    /\ UNCHANGED <<mpus, upload_ctr>>
            /\ UNCHANGED <<objects, driver, now, requests, planner, cleaner>>

\* S3Client._get_part_upload_url, the except clauses
PartUrlRaises(exc) ==
    CASE exc = "none" -> "none"
      [] exc = "BucketNotFoundError" -> "BucketNotFoundError"
      [] exc = "MultiPartUploadNotFoundError" -> "UploadError"
      [] OTHER -> exc

S3Client_upload_file_part ==
    \E oid \in ObjectIds, uid \in 0..upload_ctr, fault \in StorageFaults,
       status \in {"200", "400", "500"} :
        LET exc == IF fault # "none" THEN fault
                   ELSE IF UploadExists(uid, oid) THEN "none"
                   ELSE "MultiPartUploadNotFoundError"
            part == [key |-> GarbageKey, nonce |-> 0, pt |-> 0]
        IN  \* one part per upload: how the adapter handles an upload does
            \* not depend on the number of parts it holds
            /\ UploadExists(uid, oid) => TheUpload(uid, oid).parts = <<>>
            /\ IF exc # "none"
               THEN /\ status = "200"
                    /\ last_call' = Record("upload_file_part", uid, oid, exc,
                                           PartUrlRaises(exc))
                    /\ UNCHANGED mpus
               ELSE IF PartAccepted(status)
               THEN /\ mpus' = WithPart(uid, oid, 1, part, Md5B64(part))
                    /\ last_call' = Record("upload_file_part", uid, oid, exc,
                                           "none")
               ELSE /\ last_call' = Record("upload_file_part", uid, oid, exc,
                                           UploadStatusError(status))
                    /\ UNCHANGED mpus
            /\ UNCHANGED <<objects, upload_ctr, driver, now, requests, planner,
                           cleaner>>

\* the storage's refusal of a part count taken for success
CompleteRaises_Lenient(exc) ==
    CASE exc = "none" -> "none"
      [] exc = "BucketNotFoundError" -> "BucketNotFoundError"
      [] exc = "MultiPartUploadConfirmError" -> "none"
      [] OTHER -> "UploadCompletionError"

\* S3Client.complete_upload, the except clauses
CompleteRaises(exc) ==
    CASE exc = "none" -> "none"
      [] exc = "BucketNotFoundError" -> "BucketNotFoundError"
      [] OTHER -> "UploadCompletionError"

\* what complete_multipart_upload raises: the upload must exist and hold
\* as many parts as the caller anticipates, and at least one
complete_multipart_upload_exc(uid, oid, part_count, fault) ==
    IF fault # "none" THEN fault
    ELSE IF ~UploadExists(uid, oid) THEN "MultiPartUploadNotFoundError"
    ELSE IF \/ TheUpload(uid, oid).parts = <<>>
            \/ Len(TheUpload(uid, oid).parts) # part_count
         THEN "MultiPartUploadConfirmError"
    ELSE "none"

\* the call before this one was a completion of the same upload that the
\* storage refused for its part count
Refused(uid, oid) ==
    /\ last_call.op = "complete_upload"
    /\ last_call.upload_id = uid
    /\ last_call.object_id = oid
    /\ last_call.storage_exc = "MultiPartUploadConfirmError"

\* the part counts a caller anticipates: the right one and a wrong one
PartCounts(uid, oid) ==
    IF UploadExists(uid, oid)
    THEN {Len(TheUpload(uid, oid).parts), Len(TheUpload(uid, oid).parts) + 1}
    ELSE {1}

S3Client_complete_upload ==
    \E oid \in ObjectIds, uid \in 0..upload_ctr, fault \in StorageFaults :
      \E part_count \in PartCounts(uid, oid) :
        LET exc == complete_multipart_upload_exc(uid, oid, part_count, fault)
            etag == IF exc = "none" THEN Some(StoreEtag(TheUpload(uid, oid).parts))
                    ELSE None
        IN  /\ IF exc = "none"
               THEN LET m == TheUpload(uid, oid)
                    IN  /\ mpus' = mpus \ {m}
                        /\ objects' = objects \cup
                              {[object_id |-> oid, parts |-> m.parts,
                                etag |-> StoreEtag(m.parts)]}
               ELSE UNCHANGED <<mpus, objects>>
            /\ last_call' =
                  [op |-> "complete_upload", upload_id |-> uid,
                   object_id |-> oid, storage_exc |-> exc,
                   res |-> CompleteRaises(exc), before |-> Snapshot,
                   part_count |-> part_count, etag |-> etag,
                   retry |-> Refused(uid, oid)]
            /\ UNCHANGED <<upload_ctr, driver, now, requests, planner, cleaner>>

\* what abort_multipart_upload raises: the upload must be one of that
\* object id
abort_multipart_upload_exc(uid, oid, fault) ==
    IF fault # "none" THEN fault
    ELSE IF UploadExists(uid, oid) THEN "none"
    ELSE "MultiPartUploadNotFoundError"

\* the missing upload treated like any other failure
AbortRaises_Strict(exc) ==
    CASE exc = "none" -> "none"
      [] exc = "BucketNotFoundError" -> "BucketNotFoundError"
      [] OTHER -> "S3Error"

\* S3Client.abort_upload, the except clauses
AbortRaises(exc) ==
    CASE exc = "none" -> "none"
      [] exc = "BucketNotFoundError" -> "BucketNotFoundError"
      [] exc = "MultiPartUploadNotFoundError" -> "none"
      [] OTHER -> "S3Error"

S3Client_abort_upload ==
    \E oid \in ObjectIds, uid \in 0..upload_ctr, fault \in StorageFaults :
        LET exc == abort_multipart_upload_exc(uid, oid, fault)
        IN  /\ mpus' = IF exc = "none" THEN AbortedUploads(uid, oid) ELSE mpus
            /\ last_call' = Record("abort_upload", uid, oid, exc,
                                   AbortRaises(exc))
            /\ UNCHANGED <<objects, upload_ctr, driver, now, requests, planner,
                           cleaner>>

\* what delete_object raises
delete_object_exc(oid, fault) ==
    IF fault # "none" THEN fault
    ELSE IF \E o \in objects : o.object_id = oid THEN "none"
    ELSE "ObjectNotFoundError"

\* the missing object treated like any other failure
RemoveRaises_Strict(exc) ==
    CASE exc = "none" -> "none"
      [] exc = "BucketNotFoundError" -> "BucketNotFoundError"
      [] OTHER -> "S3CleanupError"

\* S3Client.remove_file, the except clauses
RemoveRaises(exc) ==
    CASE exc = "none" -> "none"
      [] exc = "BucketNotFoundError" -> "BucketNotFoundError"
      [] exc = "ObjectNotFoundError" -> "none"
      [] OTHER -> "S3CleanupError"

S3Client_remove_file ==
    \E oid \in ObjectIds, fault \in StorageFaults :
        LET exc == delete_object_exc(oid, fault)
        IN  /\ objects' = IF exc = "none"
                          THEN { o \in objects : o.object_id # oid }
                          ELSE objects
            /\ last_call' = Record("remove_file", 0, oid, exc,
                                   RemoveRaises(exc))
            /\ UNCHANGED <<mpus, upload_ctr, driver, now, requests, planner,
                           cleaner>>

StoreInit ==
    /\ PipelineInit
    /\ PlannerIdle
    /\ CleanerIdle
    /\ AdaptersIdle

StoreNext ==
    \/ S3Client_init_interrogation_bucket_upload
    \/ S3Client_upload_file_part
    \/ S3Client_complete_upload
    \/ S3Client_abort_upload
    \/ S3Client_remove_file

StoreSpec == StoreInit /\ [][StoreNext]_vars

\* ------------------------------------------------------------------
\* CentralClient, its methods called in any order while time passes
\* ------------------------------------------------------------------

MaxTime == 2
MaxRequests == 2

AUTH_TOKEN_VALID_SECONDS == 60
JWT_ISS == "GHGA"
JWT_AUD == "GHGA"
inbox_storage_alias == "inbox"

\* a token signed once, when the client was constructed, and kept
_make_jwt_Cached(at, serial) ==
    [iss |-> JWT_ISS, aud |-> JWT_AUD, sub |-> inbox_storage_alias,
     iat |-> 0, exp |-> AUTH_TOKEN_VALID_SECONDS, serial |-> 1]

\* CentralClient._make_jwt: sign_and_serialize_token stamps the claims with
\* the time of the call and an expiry valid_seconds later; serial numbers
\* the calls of _make_jwt
_make_jwt(at, serial) ==
    [iss |-> JWT_ISS, aud |-> JWT_AUD, sub |-> inbox_storage_alias,
     iat |-> at, exp |-> at + AUTH_TOKEN_VALID_SECONDS, serial |-> serial]

\* CentralClient._auth_header: a call of _make_jwt for every header
_auth_header == _make_jwt(now, Len(requests) + 1)

Request(endpoint) ==
    [endpoint |-> endpoint, at |-> now, token |-> _auth_header]

Answer(op, status, body, res) ==
    [op |-> op, status |-> status, body |-> body, res |-> res]

tick ==
    /\ now < MaxTime
    /\ now' = now + 1
    /\ UNCHANGED <<last_call, requests, pipeline, planner, cleaner>>

CentralClient_fetch_new_uploads ==
    /\ Len(requests) < MaxRequests
    /\ requests' = Append(requests, Request("uploads"))
    /\ \E status \in {"200", "500"}, body \in Bodies :
         /\ status # "200" => body = "not_json"
         /\ last_call' = Answer("fetch_new_uploads", status, body,
                IF ResponseOk(status)
                THEN _response_to_file_upload_list(body)
                ELSE "CentralAPIError")
    /\ UNCHANGED <<now, pipeline, planner, cleaner>>

CentralClient_get_removable_files ==
    /\ Len(requests) < MaxRequests
    /\ requests' = Append(requests, Request("can_remove"))
    /\ \E status \in {"200", "500"}, body \in Bodies :
         /\ status # "200" => body = "not_json"
         /\ last_call' = Answer("get_removable_files", status, body,
                IF status # "200" THEN "CentralAPIError"
                ELSE _response_to_file_id_list(body))
    /\ UNCHANGED <<now, pipeline, planner, cleaner>>

CentralClient_submit_interrogation_report ==
    /\ Len(requests) < MaxRequests
    /\ requests' = Append(requests, Request("interrogation_reports"))
    /\ \E status \in {"200", "201", "500"} :
         last_call' = Answer("submit_interrogation_report", status, "none",
                             SubmitRaises(status))
    /\ UNCHANGED <<now, pipeline, planner, cleaner>>

CentralInit ==
    /\ PipelineInit
    /\ PlannerIdle
    /\ CleanerIdle
    /\ AdaptersIdle

CentralNext ==
    \/ tick
    \/ CentralClient_fetch_new_uploads
    \/ CentralClient_get_removable_files
    \/ CentralClient_submit_interrogation_report

CentralSpec == CentralInit /\ [][CentralNext]_vars

\* ===================================================================
\* Properties
\* ===================================================================
The(s) == CHOOSE x \in s : TRUE

Contains(words, w) == \E j \in DOMAIN words : words[j] = w

Files == DOMAIN new_files

\* interrogate_new_files has left file i behind: it moved on, or an
\* exception left the loop while i was the current file
EscapedAt(i) == pc = "raised" /\ idx = i
Finished(i) == idx > i \/ EscapedAt(i)

FailureReports(i) ==
    { k \in DOMAIN reports : reports[k].file_id = i /\ ~reports[k].passed }

SuccessReports(i) ==
    { k \in DOMAIN reports : reports[k].file_id = i /\ reports[k].passed }

LogOf(i, op) == { k \in DOMAIN log : log[k].file = i /\ log[k].op = op }

OpenUploads(i) == { m \in mpus : m.object_id = i }
ObjectsOf(i) == { o \in objects : o.object_id = i }

\* the rolling plaintext digest of file i as the trace shows it: over the
\* outputs of the confirmatory decryptions, in order
ConfirmedPlain(i) ==
    LET hits == SelectSeq(log, LAMBDA e : e.file = i /\ e.op = "confirm_decrypt"
                                          /\ e.res = "ok")
    IN  [j \in 1..Len(hits) |-> The(hits[j].plain)]

RollingOf(i) == PlainSha256Hex(ConfirmedPlain(i))

UploadedParts(i) ==
    { The(log[k].part) : k \in { j \in LogOf(i, "upload_file_part") :
                                   log[j].res = "200" } }

AllPartsUploaded(i) == UploadedParts(i) = 0..(new_files[i].nparts - 1)

B64ToRaw(b64) == <<"md5", b64[2], b64[3], b64[4]>>

\* the ETag the interrogator computed, recovered from a success report
ReportedEtag(report) ==
    LET md5s == The(report.encrypted_parts_md5)
    IN  EtagOf([j \in 1..Len(md5s) |-> B64ToRaw(md5s[j])])

\* C2: a success report is submitted for a file only after every part range
\* was uploaded, the rolling plaintext SHA-256 equalled the declared
\* decrypted_sha256, the multipart upload was completed, and the locally
\* computed ETag equalled the ETag the store returned.
C2_SuccessOnlyAfterAllChecks ==
    \A k \in DOMAIN reports :
        reports[k].passed =>
            LET i == reports[k].file_id
            IN  /\ AllPartsUploaded(i)
                /\ RollingOf(i) = new_files[i].decrypted_sha256
                /\ \E c \in LogOf(i, "complete_upload") : log[c].res = "ok"
                /\ \E o \in ObjectsOf(i) :
                      /\ Len(o.parts) = new_files[i].nparts
                      /\ o.etag = ReportedEtag(reports[k])

C2_Witness ==
    \E k \in DOMAIN reports :
        /\ reports[k].passed
        /\ new_files[reports[k].file_id].nparts > 1

\* all parts of file i went through and the rolling plaintext digest
\* differs from the declared one
ShaMismatchAt(i) ==
    /\ AllPartsUploaded(i)
    /\ RollingOf(i) # new_files[i].decrypted_sha256

AbortReturned(i) == \E a \in LogOf(i, "abort_upload") : log[a].res = "ok"

\* C4: if the rolling plaintext SHA-256 over all parts differs from the
\* declared decrypted_sha256, the abort of the multipart upload is the one
\* store operation that follows, complete_upload is never called for the
\* file, no success report is submitted, and once the abort has returned the
\* upload is gone and exactly one failure report is submitted, whose reason
\* contains "SHA-256".  (An abort that the store refuses is a store error
\* and propagates; no report is submitted then.)
C4_ShaMismatchAbortsAndReports ==
    \A i \in Files :
        ShaMismatchAt(i) =>
            /\ LogOf(i, "complete_upload") = {}
            /\ SuccessReports(i) = {}
            /\ \/ idx = i /\ pc = "compare"
               \/ Cardinality(LogOf(i, "abort_upload")) = 1
            /\ AbortReturned(i) => OpenUploads(i) = {}
            /\ FailureReports(i) # {} => AbortReturned(i)
            /\ Cardinality(FailureReports(i)) <= 1
            /\ (AbortReturned(i) /\ Finished(i)) =>
                  /\ Cardinality(FailureReports(i)) = 1
                  /\ \A k \in FailureReports(i) :
                        Contains(The(reports[k].reason), "SHA-256")

C4_Witness ==
    \E i \in Files :
        /\ ShaMismatchAt(i)
        /\ Finished(i)
        /\ \E k \in FailureReports(i) :
              Contains(The(reports[k].reason), "SHA-256")

\* ---- statements the code does not meet ------------------------------

\* processing of file i ended in one of the three interrogation failures
InterrogationFailureAt(i) ==
    outcome[i].site \in {"envelope", "initial_decrypt", "sha256"}

ReportSubmittedBefore(i, k) ==
    \E j \in 1..(k - 1) :
        log[j].file = i /\ log[j].op = "submit_interrogation_report"

Started(j) == \E k \in DOMAIN log : log[k].file = j

\* C1: when processing of a file ends in an interrogation failure (envelope
\* decrypt failure, per-part decrypt failure under the old key, plaintext
\* SHA-256 mismatch), exactly one failure report is submitted for it before
\* any operation on the next file, the error does not escape
\* interrogate_new_files, and every later file is still processed.  (A
\* rejected report submission is a central-API error of its own.)
C1_FailureReportedBatchContinues ==
    \A i \in Files :
        InterrogationFailureAt(i) =>
            /\ EscapedAt(i) => escaped = "CentralAPIError"
            /\ Finished(i) =>
                  /\ Cardinality(FailureReports(i)) = 1
                  /\ SuccessReports(i) = {}
            /\ \A k \in DOMAIN log :
                  log[k].file > i => ReportSubmittedBefore(i, k)
            /\ (pc \in {"done", "raised"} /\ ~EscapedAt(i)) =>
                  \A j \in Files : (i < j /\ j <= idx) => Started(j)

\* C3: whenever a failure report has been submitted for a file, no
\* multipart upload opened for it is still open and no object with its id
\* exists in the interrogation bucket.
C3_FailureReportLeavesNothing ==
    \A k \in DOMAIN reports :
        ~reports[k].passed =>
            /\ OpenUploads(reports[k].file_id) = {}
            /\ ObjectsOf(reports[k].file_id) = {}

\* C5: if decryption of a part under the old key fails, the multipart
\* upload is aborted before the failure report is submitted, no further
\* part is fetched or uploaded, and complete_upload is never called.
C5_DecryptFailureAbortsUpload ==
    \A k \in DOMAIN log :
        (log[k].op = "initial_decrypt" /\ log[k].res = "DecryptionError") =>
            \A j \in (k + 1)..Len(log) :
                log[j].file = log[k].file =>
                    /\ log[j].op \notin {"fetch_file_part", "upload_file_part",
                                         "complete_upload"}
                    /\ log[j].op = "submit_interrogation_report" =>
                          \E a \in (k + 1)..(j - 1) :
                              /\ log[a].file = log[k].file
                              /\ log[a].op = "abort_upload"

EnvelopeUndecodable(i) ==
    \E k \in LogOf(i, "_extract_secret") : log[k].res = "ValueError"

\* C6: if the envelope cannot be decoded with the worker's private key, no
\* multipart upload is opened for the file, a failure report is submitted
\* for it, and the batch continues with the next file.
C6_EnvelopeFailureReported ==
    \A i \in Files :
        EnvelopeUndecodable(i) =>
            /\ LogOf(i, "init_interrogation_bucket_upload") = {}
            /\ EscapedAt(i) => escaped = "CentralAPIError"
            /\ Finished(i) => Cardinality(FailureReports(i)) = 1

\* C7: if re-encryption of a part fails, ReencryptionError propagates out
\* of interrogate_new_files: no part is uploaded in that iteration or a
\* later one, the multipart upload is aborted, and no report of either kind
\* is submitted for the file.
C7_ReencryptionFailureIsFatal ==
    \A k \in DOMAIN log :
        (log[k].op = "_reencrypt_part" /\ log[k].res = "ReencryptionError") =>
            LET i == log[k].file
            IN  /\ EscapedAt(i)
                /\ escaped = "ReencryptionError"
                /\ \A j \in (k + 1)..Len(log) :
                      ~(log[j].file = i /\ log[j].op = "upload_file_part")
                /\ OpenUploads(i) = {}
                /\ FailureReports(i) = {} /\ SuccessReports(i) = {}

PlainAt(i, p, op) ==
    { The(log[k].plain) : k \in { j \in LogOf(i, op) :
                                    log[j].part = Some(p) /\ log[j].res = "ok" } }

\* C8: a re-encrypted part is uploaded only if decrypting it under the new
\* key gives exactly the plaintext of the initial decryption of that part
\* range; a failing confirmatory decryption is fatal: it escapes
\* interrogate_new_files and no failure report is submitted for the file.
C8_ConfirmatoryDecryptGuardsUpload ==
    /\ \A k \in DOMAIN log :
          log[k].op = "upload_file_part" =>
              /\ PlainAt(log[k].file, The(log[k].part), "confirm_decrypt") # {}
              /\ PlainAt(log[k].file, The(log[k].part), "confirm_decrypt")
                   = PlainAt(log[k].file, The(log[k].part), "initial_decrypt")
    /\ \A k \in DOMAIN log :
          (log[k].op = "confirm_decrypt" /\ log[k].res = "DecryptionError") =>
              /\ EscapedAt(log[k].file)
              /\ FailureReports(log[k].file) = {}

EtagDiffers(i) == \E o \in ObjectsOf(i) : o.etag # StoreEtag(o.parts)

\* C9: if the ETag complete_upload returns differs from the locally
\* computed one, the error is fatal: it escapes interrogate_new_files, stops
\* the batch, and no report of either kind is submitted for the file.
C9_EtagMismatchIsFatal ==
    \A i \in Files :
        EtagDiffers(i) =>
            /\ EscapedAt(i)
            /\ FailureReports(i) = {} /\ SuccessReports(i) = {}

\* a step of the trace that ended in an object-store error, a central-API
\* error or a re-encryption error
FatalStep(e) ==
    \/ e.op \in {"fetch_envelope", "fetch_file_part"} /\ e.res = "DownloadError"
    \/ e.op = "init_interrogation_bucket_upload" /\ e.res = "UploadInitError"
    \/ e.op = "upload_file_part" /\ e.res # "200"
    \/ e.op = "abort_upload" /\ e.res # "ok"
    \/ e.op = "complete_upload" /\ e.res # "ok"
    \/ e.op = "submit_interrogation_report" /\ e.res # "201"
    \/ e.op = "_reencrypt_part" /\ e.res = "ReencryptionError"

\* C10: a fatal error while processing one file (object-store error,
\* central-API error, re-encryption error) propagates out of
\* interrogate_new_files, and after it no operation is issued for any later
\* file of the batch.
C10_FatalStopsBatch ==
    \A k \in DOMAIN log :
        (log[k].file \in Files /\ FatalStep(log[k])) =>
            /\ EscapedAt(log[k].file)
            /\ \A j \in (k + 1)..Len(log) : log[j].file <= log[k].file

\* the upload of part p of file i returned 200 before step k of the trace
UploadedBefore(i, p, k) ==
    \E j \in 1..(k - 1) :
        /\ log[j].file = i /\ log[j].op = "upload_file_part"
        /\ log[j].part = Some(p) /\ log[j].res = "200"

\* C11: within one file the upload of part k is issued only after the upload
\* of part k-1 returned successfully, no upload is issued after one that did
\* not return successfully, and complete_upload is issued only after the
\* upload of every part range returned successfully.  (Each upload is awaited
\* before the next statement runs: a step of the trace is a call together
\* with its return, so no two uploads of a file overlap.)
C11_PartsUploadedInOrder ==
    \A k \in DOMAIN log :
        /\ log[k].op = "upload_file_part" =>
              /\ \A p \in 0..(The(log[k].part) - 1) :
                    UploadedBefore(log[k].file, p, k)
              /\ \A j \in 1..(k - 1) :
                    (log[j].file = log[k].file /\ log[j].op = "upload_file_part")
                        => /\ log[j].res = "200"
                           /\ The(log[j].part) < The(log[k].part)
        /\ log[k].op = "complete_upload" =>
              \A p \in 0..(new_files[log[k].file].nparts - 1) :
                  UploadedBefore(log[k].file, p, k)

C11_Witness ==
    \E k \in DOMAIN log :
        /\ log[k].op = "complete_upload"
        /\ new_files[log[k].file].nparts > 1

C18_BadPartMd5Propagates ==
    \A k \in DOMAIN log :
        (log[k].op = "upload_file_part" /\ log[k].res = "400") =>
            /\ EscapedAt(log[k].file)
            /\ escaped = "BadPartMD5Error"
            /\ k = Len(log)
            /\ LogOf(log[k].file, "complete_upload") = {}
            /\ FailureReports(log[k].file) = {}
            /\ SuccessReports(log[k].file) = {}

C18_Witness ==
    \E k \in DOMAIN log :
        /\ log[k].op = "upload_file_part" /\ log[k].res = "400"
        /\ The(log[k].part) > 0

\* C19: if the central API answers the pending-uploads request with a
\* status other than 200, interrogate_new_files raises CentralAPIError, no
\* object-store operation is issued and no report is submitted.
C19_FetchFailureStopsEverything ==
    \A k \in DOMAIN log :
        (log[k].op = "fetch_new_uploads" /\ log[k].res # "200") =>
            /\ pc = "raised"
            /\ escaped = "CentralAPIError"
            /\ Len(log) = 1
            /\ reports = <<>>
            /\ mpus = {} /\ objects = {}

C19_Witness ==
    /\ log # <<>>
    /\ log[1].op = "fetch_new_uploads"
    /\ log[1].res = "500"

\* ---- byte level --------------------------------------------------------
CeilDiv(a, b) == (a + b - 1) \div b

\* the loop of calc_encrypted_part_ranges has ended
CalcDone == ppc \in {"fetch_part", "done"}

RangeLen(r) == r.stop - r.start

RECURSIVE SumLen(_)
SumLen(rs) ==
    IF rs = <<>> THEN 0
    ELSE SumLen(SubSeq(rs, 1, Len(rs) - 1)) + RangeLen(rs[Len(rs)])

\* C13: for every decrypted_size >= 0 and envelope length e >= 0, with
\* encrypted_size = e + the Crypt4GH ciphertext size of decrypted_size
\* bytes, FileUpload.offset equals e, also when decrypted_size is an exact
\* multiple of the segment size.
C13_OffsetIsEnvelopeLength ==
    \A k \in DOMAIN fetched :
        fetched[k].kind = "envelope" =>
            /\ fetched[k].stop = offset(decrypted_size, encrypted_size)
            /\ fetched[k].stop = envelope_len

\* C14: calc_encrypted_part_ranges emits exactly ceil(decrypted_size / S)
\* ranges, the first starts at 0, each starts where the previous one stops,
\* and the lengths sum to encrypted_size minus the envelope length.
C14_RangesAreTheSegments ==
    CalcDone =>
        /\ Len(ranges) = CeilDiv(decrypted_size, SEGMENT_SIZE)
        /\ ranges # <<>> => ranges[1].start = 0
        /\ \A k \in 2..Len(ranges) : ranges[k].start = ranges[k - 1].stop
        /\ SumLen(ranges) = encrypted_size - envelope_len

PartFetches == { k \in DOMAIN fetched : fetched[k].kind = "part" }

\* C16: for each emitted part range [start, stop) the bytes fetched are the
\* inbox object's bytes offset+start .. offset+stop-1; no envelope byte is
\* fetched as part data, and once all ranges are read every byte after the
\* envelope was fetched exactly once.
C16_PartBytesFollowOffset ==
    /\ \A k \in PartFetches :
          fetched[k].res # "DownloadError" =>
              /\ fetched[k].first
                   = offset(decrypted_size, encrypted_size) + fetched[k].start
              /\ fetched[k].last
                   = offset(decrypted_size, encrypted_size) + fetched[k].stop - 1
              /\ fetched[k].first >= envelope_len
    /\ (ppc = "done" /\ PartFetches # {}) =>
          /\ \E k \in PartFetches : fetched[k].first = envelope_len
          /\ \E k \in PartFetches : fetched[k].last = encrypted_size - 1
          /\ \A k \in PartFetches :
                (k + 1) \in PartFetches =>
                    fetched[k + 1].first = fetched[k].last + 1

\* C17: a byte-range read called with (start, stop) asks the store for the
\* bytes start through stop-1 and, when the object holds them, returns
\* exactly stop - start bytes.
C17_WireRangeIsInclusive ==
    \A k \in DOMAIN fetched :
        (0 <= fetched[k].start /\ fetched[k].start < fetched[k].stop) =>
            /\ fetched[k].wire.first = fetched[k].start
            /\ fetched[k].wire.last = fetched[k].stop - 1
            /\ fetched[k].stop <= encrypted_size =>
                  /\ fetched[k].res # "DownloadError"
                  /\ fetched[k].last - fetched[k].first + 1
                       = fetched[k].stop - fetched[k].start

\* ---- cleaner -----------------------------------------------------------
\* C20: after scan_and_clean has returned, the interrogation bucket holds
\* exactly the keys it held before minus the keys the central API returned
\* as removable; at no point of the run is a key deleted that was not
\* returned as removable; and with an empty answer the bucket is unchanged
\* and no delete is issued.
C20_CleanerDeletesApprovedOnly ==
    /\ cpc = "done" => bucket = bucket_before \ Elems(removable_objects)
    /\ (bucket_before \ bucket) \subseteq Elems(removable_objects)
    /\ bucket \subseteq bucket_before
    /\ \A k \in DOMAIN deletes :
          deletes[k].object_id \in Elems(removable_objects)
    /\ (cpc = "done" /\ removable_objects = <<>>) =>
          /\ deletes = <<>>
          /\ bucket = bucket_before

\* a run that deleted some keys and left others
C20_Witness ==
    /\ cpc = "done"
    /\ bucket # {}
    /\ bucket # bucket_before
    /\ Elems(removable_objects) \subseteq bucket_before

\* C21: during scan_and_clean, if an approved object is already absent when
\* its delete is attempted, scan_and_clean does not raise and goes on with
\* the remaining approved objects.
C21_AbsentObjectIsSkipped ==
    \A k \in DOMAIN deletes :
        ~deletes[k].held =>
            deletes[k].res = "ok"

\* ------------------------------------------------------------------
\* S3Client called on its own
\* ------------------------------------------------------------------

HeldBefore(oid) == \E o \in last_call.before.objects : o.object_id = oid
OpenBefore(oid) == \E m \in last_call.before.mpus : m.object_id = oid
BucketUnchanged ==
    /\ mpus = last_call.before.mpus
    /\ objects = last_call.before.objects
\* the storage answered from what the bucket holds
Answered == last_call.storage_exc \notin {"BucketNotFoundError", "Exception"}

\* C22: remove_file is idempotent: for an object id that is not in the
\* interrogation bucket it does not raise and leaves the bucket unchanged;
\* for an object that is present it removes exactly that object.
C22_RemoveFileIsIdempotent ==
    (last_call.op = "remove_file" /\ Answered) =>
        /\ last_call.res = "none"
        /\ mpus = last_call.before.mpus
        /\ objects = { o \in last_call.before.objects :
                         o.object_id # last_call.object_id }
        /\ ~HeldBefore(last_call.object_id) => BucketUnchanged

C22_Witness ==
    /\ last_call.op = "remove_file"
    /\ last_call.storage_exc = "ObjectNotFoundError"
    /\ last_call.res = "none"
    /\ objects # {}

\* C23: abort_upload on an upload id that does not exist for the given
\* object does not raise and changes nothing; on an open upload it leaves
\* no multipart upload and no object for that object id in the bucket.
C23_AbortUploadToleratesMissing ==
    (last_call.op = "abort_upload" /\ Answered) =>
        /\ last_call.res = "none"
        /\ IF \E m \in last_call.before.mpus :
                  /\ m.upload_id = last_call.upload_id
                  /\ m.object_id = last_call.object_id
           THEN /\ OpenUploads(last_call.object_id) = {}
                /\ ObjectsOf(last_call.object_id) = {}
           ELSE BucketUnchanged

C23_Witness ==
    /\ last_call.op = "abort_upload"
    /\ last_call.storage_exc = "MultiPartUploadNotFoundError"
    /\ last_call.res = "none"
    /\ \E m \in mpus : /\ m.upload_id = last_call.upload_id
                       /\ m.object_id # last_call.object_id

\* C24: init_interrogation_bucket_upload raises UploadInitError when a
\* multipart upload is already open for the object id or the object already
\* exists, and then the upload opened before stays open as it was; at most
\* one multipart upload per object id is ever open.
C24_OneUploadPerObject ==
    /\ \A oid \in ObjectIds : Cardinality(OpenUploads(oid)) <= 1
    /\ (/\ last_call.op = "init_interrogation_bucket_upload"
        /\ Answered
        /\ OpenBefore(last_call.object_id) \/ HeldBefore(last_call.object_id))
       => /\ last_call.res = "UploadInitError"
          /\ BucketUnchanged

C24_Witness ==
    /\ last_call.op = "init_interrogation_bucket_upload"
    /\ last_call.res = "UploadInitError"
    /\ \E m \in mpus : /\ m.object_id = last_call.object_id
                       /\ m.parts # <<>>

\* ------------------------------------------------------------------
\* the pipeline: leftovers, report submission, report shape
\* ------------------------------------------------------------------

\* interrogate_file has returned or raised for file i
Exited(i) == Finished(i) \/ (idx = i /\ pc = "report_failure")

\* C25: on every exit of interrogate_file that does not complete the
\* multipart upload, the upload it opened has been aborted: no open upload
\* of the file outlives the invocation.
C25_NoUploadOutlivesInvocation ==
    \A i \in Files : Exited(i) => OpenUploads(i) = {}

\* C27: submit_interrogation_report treats both 200 and 201 as success and
\* raises CentralAPIError for every other status.
C27_Accepts200And201 ==
    \A k \in DOMAIN log :
        log[k].op = "submit_interrogation_report" =>
            IF log[k].res \in {"200", "201"}
            THEN ~(k = Len(log) /\ escaped = "CentralAPIError")
            ELSE k = Len(log) /\ escaped = "CentralAPIError"

\* C30: every report has one of two shapes: passed with secret,
\* encrypted_parts_md5 and encrypted_parts_sha256 present and reason absent,
\* or not passed with reason present and the three fields absent.
C30_ReportShapes ==
    \A k \in DOMAIN reports :
        LET r == reports[k]
        IN  IF r.passed
            THEN /\ r.secret # None
                 /\ r.encrypted_parts_md5 # None
                 /\ r.encrypted_parts_sha256 # None
                 /\ r.reason = None
            ELSE /\ r.reason # None
                 /\ r.secret = None
                 /\ r.encrypted_parts_md5 = None
                 /\ r.encrypted_parts_sha256 = None

C30_Witness ==
    \E j \in DOMAIN reports, k \in DOMAIN reports :
        /\ reports[j].passed
        /\ ~reports[k].passed

\* C26: a file whose interrogation ended with a fatal error after its
\* multipart upload was opened can be retried on the next run: the later
\* interrogate_file for the same id is not refused with UploadInitError
\* because of what the earlier run left in the interrogation bucket.
C26_RetryCanInitiate ==
    ~(/\ RunNo > 1
      /\ pc = "raised"
      /\ escaped = "UploadInitError"
      /\ OpenUploads(file.id) # {})

\* ------------------------------------------------------------------
\* CentralClient called on its own
\* ------------------------------------------------------------------

\* C28: a 200 response whose body lacks the expected shape raises
\* ResponseFormatError: for fetch_new_uploads any body that is not a JSON
\* array of valid FileUpload records, for get_removable_files any body that
\* is not a JSON array of file-id strings.
C28_MalformedBodyIsFormatError ==
    /\ (last_call.op = "fetch_new_uploads" /\ last_call.status = "200")
       => (last_call.res = "ResponseFormatError"
             <=> last_call.body \notin {"empty_array", "array_of_records"})
    /\ (last_call.op = "get_removable_files" /\ last_call.status = "200")
       => (last_call.res = "ResponseFormatError"
             <=> last_call.body \notin {"empty_array", "array_of_strings"})

\* C29: every request to the central API carries a bearer token minted for
\* that request and used for no other, with iss = aud = "GHGA", sub = the
\* inbox storage alias, iat = the time of the request and exp 60 seconds
\* after iat.
C29_FreshTokenPerRequest ==
    \A k \in DOMAIN requests :
        LET t == requests[k].token
        IN  /\ t.iss = "GHGA"
            /\ t.aud = "GHGA"
            /\ t.sub = inbox_storage_alias
            /\ t.iat = requests[k].at
            /\ t.exp - t.iat = 60
            /\ t.serial = k
            /\ \A j \in DOMAIN requests : j # k => requests[j].token # t

C29_Witness ==
    /\ Len(requests) = 2
    /\ requests[1].endpoint # requests[2].endpoint
    /\ requests[1].at = requests[2].at
    /\ requests[2].at > 0

\* ------------------------------------------------------------------
\* the pipeline: inbox guard, rolling digest, reports per file, keys
\* ------------------------------------------------------------------

NotInInbox(i) ==
    \E k \in LogOf(i, "get_is_file_in_inbox") : log[k].res = "false"

\* C34: when a pending upload's object is not present in the inbox,
\* FileNotFoundError is raised before any envelope fetch, multipart-upload
\* initiation or part upload is issued for that file.
C34_MissingFileTouchesNothing ==
    \A i \in Files :
        NotInInbox(i) =>
            /\ outcome[i].type = "FileNotFoundError"
            /\ LogOf(i, "fetch_envelope") = {}
            /\ LogOf(i, "init_interrogation_bucket_upload") = {}
            /\ LogOf(i, "fetch_file_part") = {}
            /\ LogOf(i, "upload_file_part") = {}
            /\ OpenUploads(i) = {}

C34_Witness ==
    \E i \in Files :
        /\ NotInInbox(i)
        /\ EscapedAt(i)
        /\ escaped = "FileNotFoundError"

\* what the parts of the upload in progress decrypt to under the new key
UploadDecrypts ==
    LET parts == TheUpload(upload_id, file.id).parts
    IN  [j \in 1..Len(parts) |->
            _decrypt_part(parts[j].data, new_secret, FALSE).value]

\* C36: the rolling plaintext SHA-256 compared with decrypted_sha256 is
\* computed over the concatenation, in part order, of the outputs of the
\* confirmatory decryptions under the new key, that is over what the
\* uploaded parts decrypt to.
C36_RollingDigestOverConfirmedPlaintext ==
    (pc \in {"fetch_part", "reencrypt_part", "compare"}) =>
        /\ unencrypted_hexdigest(checksums) = RollingOf(idx)
        /\ UploadExists(upload_id, file.id)
        /\ unencrypted_hexdigest(checksums) = PlainSha256Hex(UploadDecrypts)

C36_Witness ==
    /\ pc = "compare"
    /\ inbox[idx] = <<1, 2>>
    /\ \E k \in LogOf(idx, "_reencrypt_part") :
          log[k].res = "ReencryptionError"
    /\ ConfirmedPlain(idx) = <<1, 1>>

ReportsOf(i) == { k \in DOMAIN reports : reports[k].file_id = i }

\* C38: for each file in one run of interrogate_new_files at most one report
\* is submitted: never a success and a failure report, never two failure
\* reports, for the same file id.
C38_OneReportPerFile ==
    \A i \in Files : Cardinality(ReportsOf(i)) <= 1

C38_Witness ==
    /\ pc = "done"
    /\ Len(new_files) = MaxBatch
    /\ \A i \in Files : Cardinality(ReportsOf(i)) = 1

\* the keys under which the parts stored for file i are encrypted
PartKeys(i) ==
    UNION { { m.parts[j].data.key : j \in DOMAIN m.parts } :
              m \in OpenUploads(i) \cup ObjectsOf(i) }

\* C39: within one interrogate_file invocation a single new key is
\* generated after the multipart upload is initiated, every uploaded part of
\* the file is encrypted under that one key, and the secret in the success
\* report is that same key; a new key is generated for each file.
C39_OneNewKeyPerFile ==
    /\ \A i \in Files :
          /\ Cardinality(PartKeys(i)) <= 1
          /\ \A k \in SuccessReports(i) :
                \A key \in PartKeys(i) : reports[k].secret = Some(key)
          /\ \A j \in Files : i # j => PartKeys(i) \cap PartKeys(j) = {}
    /\ (pc \in {"fetch_part", "reencrypt_part", "compare", "complete",
                "report_success"})
          => /\ new_secret # NoKey
             /\ PartKeys(idx) \subseteq {new_secret}
    /\ (pc \in {"check_inbox", "fetch_secret", "init_upload"})
          => new_secret = NoKey

C39_Witness ==
    \E i \in Files, j \in Files :
        /\ i # j
        /\ SuccessReports(i) # {}
        /\ SuccessReports(j) # {}
        /\ PartKeys(i) # {}
        /\ PartKeys(j) # {}

\* C40: scan_and_clean issues delete requests only for keys that appeared
\* in its own listing of the interrogation bucket: an id the central API
\* returned that was not in the listing causes no delete request and no
\* error.
C40_DeletesOnlyListedKeys ==
    \A k \in DOMAIN deletes : deletes[k].object_id \in Elems(object_ids)

\* C32: the ETag the interrogator compares against the store's ETag equals
\* hex(md5(concatenation of the raw per-part MD5 digests in upload order))
\* followed by "-n", where n is the number of parts uploaded for the file.
C32_EtagLaw ==
    pc = "complete" =>
        LET parts == TheUpload(upload_id, file.id).parts
            expected_etag == encrypted_checksum_for_s3(checksums)
        IN  /\ expected_etag =
                 EtagOf([j \in 1..Len(parts) |-> Md5Raw(parts[j].data)])
            /\ expected_etag.n = Cardinality(UploadedParts(idx))

C32_Witness ==
    /\ pc = "complete"
    /\ Len(TheUpload(upload_id, file.id).parts) = MaxParts
    /\ encrypted_checksum_for_s3(checksums).n = MaxParts

\* the upload a completion call named, as it was before the call
NamedUpload ==
    { m \in last_call.before.mpus : /\ m.upload_id = last_call.upload_id
                                    /\ m.object_id = last_call.object_id }

C37_PartNumbersStartAtOne ==
    \A i \in Files :
        UploadedParts(i) = 1..Cardinality(UploadedParts(i))

\* C33: the interrogate entry point runs interrogate_new_files exactly once
\* and returns normally (exit 0) when that call does not raise; the cleanup
\* entry point runs scan_and_clean exactly once and returns normally when it
\* does not raise.
C33_EntryPointsReturnNormally ==
    /\ (last_call.op = "interrogate" /\ last_call.exit # "running")
          => /\ RunNo = 1
             /\ pc = "done" => last_call.exit = "0"
    /\ last_call.op = "cleanup"
          => /\ cpc # "idle"
             /\ cpc = "done" => last_call.exit = "0"

\* C31: in a submitted success report the secret field on the wire is the
\* encryption to the central public key of urlsafe-base64(new_key):
\* decrypting it with the central private key and base64-decoding yields
\* the report's secret, and the unencrypted new key never appears in any
\* request body.
C31_SecretOnlyEncryptedOnWire ==
    /\ Len(requests) = Len(reports)
    /\ \A k \in DOMAIN requests :
          LET body == requests[k]
              report == reports[k]
          IN  /\ report.passed =>
                    /\ body.secret # None
                    /\ urlsafe_b64decode(decrypt(The(body.secret),
                                                 central_api_private_key))
                          = The(report.secret)
              /\ \A j \in DOMAIN reports : \A key \in reports[j].secret :
                    /\ body.secret # Some(key)
                    /\ body.secret # Some(urlsafe_b64encode(key))
                    /\ body.reason # Some(key)

C31_Witness ==
    \E k \in DOMAIN requests :
        /\ requests[k].passed
        /\ requests[k].secret = Some(WireSecret(The(reports[k].secret)))
        /\ The(reports[k].secret) = NewKey(1)


====
